---- MODULE Spec2Model ----
(***************************************************************************)
(* Model of the Sandbox particle simulation (src/src/components/Sandbox.js *)
(* and its tick/hue variant src/unnamed/part_000).                         *)
(*                                                                         *)
(* Positions are integers in units of 1/VelocityDen pixel, config.velocity *)
(* is an integer number of 1/VelocityDen (0.30 is 30).  Indices into the   *)
(* particle collection are 1-based here (index j of the source is j + 1).  *)
(* A React closure is modelled by the configuration record it captured.    *)
(* JavaScript runs every handler to completion: configuration changes and  *)
(* reset only happen between frames (pc = "idle").                         *)
(***************************************************************************)
EXTENDS Integers, Sequences, FiniteSets, TLC

VARIABLES balls, collisionCounter, processedIndices, currentConfig,
          config, loopConfig, audioConfig, audio, pc, idx, trace, resolutions,
          width, height, animationId, pending, mounted, simTickCount, gen

vars == <<balls, collisionCounter, processedIndices, currentConfig,
          config, loopConfig, audioConfig, audio, pc, idx, trace, resolutions,
          width, height, animationId, pending, mounted, simTickCount, gen>>

\* width, height: the variables of the mount closure that Ball.update and
\* spawnBalls read (canvas.width, canvas.height)
surface == <<width, height>>
\* animationId: sim.animationId (0 when null); pending: the handles of the
\* frame callbacks requested and neither run nor cancelled; mounted: the
\* component is mounted
scheduling == <<animationId, pending, mounted>>
\* simTickCount: sim.simTickCount of src/unnamed/part_000 (0 in Sandbox.js,
\* which has no tick counter); gen: the variables of the closure of
\* noiseNode.onaudioprocess, followed only where the generator is run
variant == <<simTickCount, gen>>

\* ------------------------------------------------------------------ bounds
\* canvas.width / canvas.height (window.innerWidth / innerHeight), pixels
WindowWidth == 1
WindowHeight == 1
\* Math.random() returns k / RandDen for k in 0 .. RandDen - 1
RandDen == 2
\* the initialBalls slider is moved within 1 .. MaxInitialBalls
MaxInitialBalls == 3
\* no new frame starts once the collision counter has reached MaxCollisions
MaxCollisions == 2
\* no new frame of src/unnamed/part_000 starts once sim.simTickCount has
\* reached MaxTicks
MaxTicks == 12
\* the drift of a color is followed for MaxDrift ticks past the 20 ticks of
\* persistence
MaxDrift == 30
\* the first MaxSamples samples of a buffer are followed (the first
\* MaxPinkSamples for the pink generator, whose state branches at each sample)
MaxSamples == 120
MaxPinkSamples == 7

\* --------------------------------------------------------------- constants
\* step of the velocity slider: config.velocity is a multiple of 1/100
VelocityDen == 100
\* positional jitter of a collision spawn: random(-10, 10)
SpawnJitter == 10

\* ----------------------------------------------------------------- helpers
Ids(s) == {s[k].id : k \in DOMAIN s}
\* (variant: splice one position too far)
RemoveAt_Next(s, j) ==
  [k \in 1..(Len(s) - 1) |-> IF k < j + 1 THEN s[k] ELSE s[k + 1]]

RemoveAt(s, j) == [k \in 1..(Len(s) - 1) |-> IF k < j THEN s[k] ELSE s[k + 1]]

\* (variant: the lower bound is left out)
random_FromZero(min, max, k) == (k * max) \div RandDen

\* const random = (min, max) => Math.floor(Math.random() * (max - min)) + min
\* with Math.random() = k / RandDen (\div is floor division)
random(min, max, k) == ((k * (max - min)) \div RandDen) + min
RandomSet(min, max) == {random(min, max, k) : k \in 0..(RandDen - 1)}

\* useState(...) initial configuration: the booleans and noiseType as in the
\* source, the numeric parameters scaled down to the bounds of the model
DefaultConfig ==
  [maxBalls |-> 3, initialBalls |-> 2,
   maxSpawnPerCollision |-> 2,
   minBallSize |-> 1, maxBallSize |-> 2,
   minVelocity |-> 1, maxVelocity |-> 2,
   velocity |-> VelocityDen, trailOpacity |-> 30,
   pauseSimulation |-> FALSE, noiseType |-> "pink", audioEnabled |-> FALSE,
   minFrequency |-> 100, maxFrequency |-> 8000, filterQ |-> 10,
   bypassFilters |-> FALSE]

\* what a closure reads of the configuration of its render: loop reads
\* pauseSimulation, initialBalls (and trailOpacity for the paint); the
\* spawnBalls override reads audioEnabled and, through createBallFilter and
\* updateFilterConnections, the filter parameters and bypassFilters
LoopFields == {"pauseSimulation", "initialBalls", "trailOpacity"}
AudioFields == {"audioEnabled", "bypassFilters", "filterQ", "minFrequency",
                "maxFrequency", "minBallSize", "maxBallSize"}
Capture(cfg, fields) == [f \in fields |-> cfg[f]]

\* ---------------------------------------------------------- particle entity
\* Ball.constructor: the class is defined in the mount effect, whose closure
\* holds the configuration of the first render
Ball(id, x, y, velX, velY, size) ==
  [id |-> id, x |-> x, y |-> y,
   velX |-> velX * DefaultConfig.velocity,
   velY |-> velY * DefaultConfig.velocity,
   size |-> size, origVelX |-> velX, origVelY |-> velY]

\* (variant: a particle is wrapped as soon as its center leaves the canvas)
Wrap_Early(p, size, extent) ==
  IF p > extent * VelocityDen THEN -(size * VelocityDen)
  ELSE IF p < 0 THEN (extent + size) * VelocityDen
  ELSE p

\* screen wrapping of one coordinate against the canvas extent
Wrap(p, size, extent) ==
  IF p - size * VelocityDen > extent * VelocityDen THEN -(size * VelocityDen)
  ELSE IF p + size * VelocityDen < 0 THEN (extent + size) * VelocityDen
  ELSE p

\* (variant: the effective velocity is rescaled in place)
update_Rescaled(b, cfg, w, h) ==
  LET vx == (b.velX * cfg.velocity) \div VelocityDen
      vy == (b.velY * cfg.velocity) \div VelocityDen
  IN [b EXCEPT !.velX = vx, !.velY = vy,
               !.x = Wrap(b.x + vx, b.size, w),
               !.y = Wrap(b.y + vy, b.size, h)]

\* Ball.update
update(b, cfg, w, h) ==
  LET vx == b.origVelX * cfg.velocity
      vy == b.origVelY * cfg.velocity
  IN [b EXCEPT !.velX = vx, !.velY = vy,
               !.x = Wrap(b.x + vx, b.size, w),
               !.y = Wrap(b.y + vy, b.size, h)]

\* distance < this.size + balls[j].size, with distance = sqrt(dx*dx + dy*dy)
Overlaps(a, b) ==
  LET dx == a.x - b.x
      dy == a.y - b.y
      reach == (a.size + b.size) * VelocityDen
  IN reach > 0 /\ dx * dx + dy * dy < reach * reach

\* the candidates of the scan in collisionDetect: not this, not processed
Candidate(bs, processed, i, j) == j /= i /\ j \notin processed

\* first j in collection order that is a candidate and overlaps; 0 if none
FirstMatch(bs, processed, i) ==
  LET hits == {j \in 1..Len(bs) :
                 Candidate(bs, processed, i, j) /\ Overlaps(bs[i], bs[j])}
  IN IF hits = {} THEN 0 ELSE CHOOSE j \in hits : \A k \in hits : j <= k

\* ------------------------------------------------------------- audio layer
\* audio.context: state of audioContextRef.current ("none" when null)
\* audio.noiseSource: noiseType of noiseSourceRef.current ("none" when null)
\* audio.ballFilters: ballFiltersRef.current, keyed by particle identity
\* the remaining fields are the connections of the routing graph
\* audio.raised: an exception has left one of the audio functions
NoAudio ==
  [context |-> "none", noiseSource |-> "none", ballFilters |-> <<>>,
   noiseToGain |-> FALSE, gainToDest |-> FALSE,
   gainToFilter |-> {}, filterToDest |-> {}, raised |-> FALSE]

HasFilter(a, id) == id \in DOMAIN a.ballFilters

\* updateFilterConnections, called from a render whose configuration is cfg
updateFilterConnections(a, cfg) ==
  IF a.context = "none" \/ a.noiseSource = "none" THEN a
  ELSE IF a.context = "closed" THEN a
  ELSE LET allFilters == DOMAIN a.ballFilters
           cut == [a EXCEPT !.noiseToGain = FALSE, !.gainToDest = FALSE,
                            !.gainToFilter = {},
                            !.filterToDest = @ \ allFilters]
       IN IF ~cfg.audioEnabled THEN cut
          ELSE IF cfg.bypassFilters
               THEN [cut EXCEPT !.noiseToGain = TRUE, !.gainToDest = TRUE]
               ELSE [cut EXCEPT !.noiseToGain = TRUE,
                                !.gainToFilter = allFilters,
                                !.filterToDest = @ \cup allFilters]

\* frequency = minFreq + freqRatio * (maxFreq - minFreq), with
\* freqRatio = 1 - (ball.size - minBallSize) / sizeRange, as the fraction
\* num / den; when sizeRange is 0 the division gives NaN (0 / 0) or an
\* infinity, and so does the frequency
Frequency(b, cfg) ==
  LET sizeRange == cfg.maxBallSize - cfg.minBallSize
      span == cfg.maxFrequency - cfg.minFrequency
      off == b.size - cfg.minBallSize
  IN IF sizeRange /= 0
     THEN [kind |-> "finite",
           num |-> cfg.minFrequency * sizeRange + (sizeRange - off) * span,
           den |-> sizeRange]
     ELSE IF off = 0 \/ span = 0 THEN [kind |-> "NaN", num |-> 0, den |-> 0]
     ELSE IF (off > 0) = (span > 0)
          THEN [kind |-> "-Infinity", num |-> 0, den |-> 0]
          ELSE [kind |-> "Infinity", num |-> 0, den |-> 0]

\* the parameters createBallFilter / updateBallFilter give a filter
FilterParams(b, cfg) == [Q |-> cfg.filterQ, frequency |-> Frequency(b, cfg)]

\* filter.frequency.value = frequency throws a TypeError for a value that is
\* not finite
Assignable(frequency) == frequency.kind = "finite"

\* createBallFilter
createBallFilter(a, b, cfg) ==
  IF a.raised THEN a
  ELSE IF HasFilter(a, b.id) THEN a
  ELSE IF a.context = "none" THEN a
  ELSE IF ~Assignable(Frequency(b, cfg)) THEN [a EXCEPT !.raised = TRUE]
  ELSE updateFilterConnections(
         [a EXCEPT !.ballFilters =
            [k \in DOMAIN @ \cup {b.id} |->
               IF k = b.id THEN FilterParams(b, cfg) ELSE @[k]]], cfg)

\* updateBallFilter
updateBallFilter(a, b, cfg) ==
  IF a.raised THEN a
  ELSE IF ~HasFilter(a, b.id)
  THEN IF cfg.audioEnabled THEN createBallFilter(a, b, cfg) ELSE a
  ELSE IF ~Assignable(Frequency(b, cfg)) THEN [a EXCEPT !.raised = TRUE]
  ELSE [a EXCEPT !.ballFilters[b.id] = FilterParams(b, cfg)]

\* (variant: the filter is disconnected but its map entry is kept)
cleanupBallFilter_Keep(a, b, cfg) ==
  IF ~HasFilter(a, b.id) THEN a
  ELSE [a EXCEPT !.filterToDest = @ \ {b.id}]

\* cleanupBallFilter
cleanupBallFilter(a, b, cfg) ==
  IF ~HasFilter(a, b.id) THEN a
  ELSE LET gone == [a EXCEPT !.filterToDest = @ \ {b.id},
                             !.ballFilters =
                               [k \in DOMAIN @ \ {b.id} |-> @[k]]]
       IN IF cfg.audioEnabled /\ ~cfg.bypassFilters
          THEN updateFilterConnections(gone, cfg)
          ELSE gone

\* balls.forEach(ball => f(ball)) for the three filter operations
RECURSIVE ForEachCreate(_, _, _)
ForEachCreate(a, bs, cfg) ==
  IF bs = <<>> THEN a
  ELSE ForEachCreate(createBallFilter(a, Head(bs), cfg), Tail(bs), cfg)

RECURSIVE ForEachUpdate(_, _, _)
ForEachUpdate(a, bs, cfg) ==
  IF bs = <<>> THEN a
  ELSE ForEachUpdate(updateBallFilter(a, Head(bs), cfg), Tail(bs), cfg)

\* (variant: the last particle is left out)
RECURSIVE ForEachCleanup_SkipLast(_, _, _)
ForEachCleanup_SkipLast(a, bs, cfg) ==
  IF Len(bs) <= 1 THEN a
  ELSE ForEachCleanup_SkipLast(cleanupBallFilter(a, Head(bs), cfg),
                               Tail(bs), cfg)

RECURSIVE ForEachCleanup(_, _, _)
ForEachCleanup(a, bs, cfg) ==
  IF bs = <<>> THEN a
  ELSE ForEachCleanup(cleanupBallFilter(a, Head(bs), cfg), Tail(bs), cfg)

\* the audio part of the cleanup of the mount effect
closeAudioContext(a) ==
  IF a.context = "none" THEN a
  ELSE IF a.context /= "closed" THEN [a EXCEPT !.context = "closed"]
  ELSE a

\* (variant: the state of the context is not looked at)
initializeNoiseGenerator_Unchecked(a, cfg) ==
  IF a.context = "none" THEN a
  ELSE updateFilterConnections(
         [a EXCEPT !.noiseSource = cfg.noiseType, !.noiseToGain = FALSE,
                   !.gainToDest = FALSE, !.gainToFilter = {}], cfg)

\* initializeNoiseGenerator: the old noise and gain nodes are disconnected
\* and replaced by new, unconnected ones, then the graph is rebuilt
initializeNoiseGenerator(a, cfg) ==
  IF a.context = "none" THEN a
  ELSE IF a.context = "closed" THEN a
  ELSE updateFilterConnections(
         [a EXCEPT !.noiseSource = cfg.noiseType, !.noiseToGain = FALSE,
                   !.gainToDest = FALSE, !.gainToFilter = {}], cfg)

\* ------------------------------------------------------------------ spawning
\* identities in use: a new object is distinct from every reachable one
UsedIds ==
  Ids(balls) \cup DOMAIN audio.ballFilters \cup audio.gainToFilter
    \cup audio.filterToDest \cup {trace[k].id : k \in DOMAIN trace}
    \cup {resolutions[k].scanner : k \in DOMAIN resolutions}
    \cup {resolutions[k].victim : k \in DOMAIN resolutions}

FreshId(used) ==
  CHOOSE n \in 1..(Cardinality(used) + 1) :
    n \notin used /\ \A m \in 1..(n - 1) : m \in used

RECURSIVE FreshIds(_, _)
FreshIds(used, n) ==
  IF n = 0 THEN <<>>
  ELSE LET id == FreshId(used) IN <<id>> \o FreshIds(used \cup {id}, n - 1)

\* Particles and filters have reference identity only.  Between handlers
\* the identities are named canonically: the particle at index k is named
\* k, and the filters of removed particles that are still held by the
\* routing graph are named Len(bs) + 1, Len(bs) + 2, ... in their old order
Rename(bs, a, id) ==
  IF id \in Ids(bs) THEN CHOOSE k \in DOMAIN bs : bs[k].id = id
  ELSE LET stale == (DOMAIN a.ballFilters \cup a.gainToFilter
                       \cup a.filterToDest) \ Ids(bs)
       IN Len(bs) + Cardinality({o \in stale : o <= id})

CanonBalls(bs) == [k \in DOMAIN bs |-> [bs[k] EXCEPT !.id = k]]

CanonAudio(bs, a) ==
  [a EXCEPT
     !.ballFilters =
        [n \in {Rename(bs, a, id) : id \in DOMAIN a.ballFilters} |->
           a.ballFilters[CHOOSE id \in DOMAIN a.ballFilters :
                           Rename(bs, a, id) = n]],
     !.gainToFilter = {Rename(bs, a, id) : id \in a.gainToFilter},
     !.filterToDest = {Rename(bs, a, id) : id \in a.filterToDest}]

\* the arguments spawnBalls passes to the constructor, for every outcome of
\* its random() calls; w and h are the canvas dimensions
SpawnChoices(cfg, w, h) ==
  {[x |-> x * VelocityDen, y |-> y * VelocityDen,
    velX |-> vx, velY |-> vy, size |-> sz] :
     x \in RandomSet(0, w), y \in RandomSet(0, h),
     vx \in RandomSet(cfg.minVelocity, cfg.maxVelocity),
     vy \in RandomSet(cfg.minVelocity, cfg.maxVelocity),
     sz \in RandomSet(cfg.minBallSize, cfg.maxBallSize)}

\* the arguments collisionDetect passes to the constructor of a spawned
\* particle: the victim's position plus random(-10, 10) on each axis
CollisionChoices(cfg, victim) ==
  {[x |-> victim.x + jx * VelocityDen, y |-> victim.y + jy * VelocityDen,
    velX |-> vx, velY |-> vy, size |-> sz] :
     jx \in RandomSet(-SpawnJitter, SpawnJitter),
     jy \in RandomSet(-SpawnJitter, SpawnJitter),
     vx \in RandomSet(cfg.minVelocity, cfg.maxVelocity),
     vy \in RandomSet(cfg.minVelocity, cfg.maxVelocity),
     sz \in RandomSet(cfg.minBallSize, cfg.maxBallSize)}

\* the particles built from a sequence of constructor arguments
NewBalls(ids, args) ==
  [k \in 1..Len(args) |->
     Ball(ids[k], args[k].x, args[k].y, args[k].velX, args[k].velY,
          args[k].size)]

\* sim.spawnBalls as overridden by the effect on config.audioEnabled: the
\* original spawnBalls pushes the new particles, then the override creates
\* the filters of this.balls.slice(-count) with the closure of that effect
spawnBallsAudio(a, bs, count, cfg) ==
  IF cfg.audioEnabled
  THEN ForEachCreate(a, IF count = 0 THEN bs
                        ELSE SubSeq(bs, Len(bs) - count + 1, Len(bs)), cfg)
  ELSE a

\* sim.width = width; sim.height = height: assigned once, by the mount effect
simWidth == WindowWidth
simHeight == WindowHeight

\* --------------------------------------------------------------- scheduling
\* requestAnimationFrame(loop): the handle of the new request, distinct from
\* every pending one
requestAnimationFrame(pend) ==
  CHOOSE h \in 1..(Cardinality(pend) + 1) :
    h \notin pend /\ \A m \in 1..(h - 1) : m \in pend

\* (variant: the request is left pending)
cancelAnimationFrame_Nothing(pend, id) == pend

\* cancelAnimationFrame(id): no effect for null or a handle not pending
cancelAnimationFrame(pend, id) == pend \ {id}

\* (variant: the handle is cleared without cancelling the request)
loopCleanup_NoCancel(id, pend) == [animationId |-> 0, pending |-> pend]

\* cleanup of the loop effect:
\* cancelAnimationFrame(sim.animationId); sim.animationId = null
loopCleanup(id, pend) ==
  [animationId |-> 0, pending |-> cancelAnimationFrame(pend, id)]

\* ----------------------------------------- colors of src/unnamed/part_000
\* hues are integers in units of 1/HueDen degree: 360 / 10000 is 36 / 1000
HueDen == 1000
HueStep == 36
\* const colorPersistenceFrames = 20 of Ball.update and
\* const colorPersistenceFrames = 10 of Ball.collisionDetect
colorPersistenceFrames_update == 20
colorPersistenceFrames_collisionDetect == 10

\* `hsl(${hue}, 70%, 50%)`
hsl(hue) == [hue |-> hue, saturation |-> 70, lightness |-> 50]

\* generateRandomColor, with random(0, 360) drawn as k / RandDen
generateRandomColor(k) ==
  LET hue == random(0, 360, k)
  IN [color |-> hsl(hue * HueDen), hue |-> hue]

\* Ball.constructor of part_000: the particle of Ball with a color, a base
\* hue and the tick of its creation
TickBall(id, x, y, velX, velY, colorData, size, tick) ==
  [id |-> id, x |-> x, y |-> y,
   velX |-> velX * DefaultConfig.velocity,
   velY |-> velY * DefaultConfig.velocity,
   size |-> size, origVelX |-> velX, origVelY |-> velY,
   color |-> colorData.color, baseHue |-> colorData.hue,
   lastCollisionTick |-> tick]

\* (variant: the drift starts from the hue the particle shows)
newHue_FromColor(b, tick) ==
  LET elapsedTicks ==
        tick - b.lastCollisionTick - colorPersistenceFrames_update
  IN (b.color.hue + elapsedTicks * HueStep) % (360 * HueDen)

\* newHue = (this.baseHue + elapsedTicks * (360 / 10000)) % 360
newHue(b, tick) ==
  LET elapsedTicks ==
        tick - b.lastCollisionTick - colorPersistenceFrames_update
  IN (b.baseHue * HueDen + elapsedTicks * HueStep) % (360 * HueDen)

\* Ball.update of part_000: the move of update, wrapped against sim.width
\* and sim.height, then the drift of the color
tickUpdate(b, cfg, tick) ==
  LET m == update(b, cfg, simWidth, simHeight)
  IN IF b.lastCollisionTick /= 0
        /\ tick - b.lastCollisionTick > colorPersistenceFrames_update
     THEN [m EXCEPT !.color = hsl(newHue(b, tick))]
     ELSE m

\* (variant: the color of the scanning particle is never kept)
shouldKeepColor_Never(b, tick) == FALSE

\* shouldKeepColor of Ball.collisionDetect
shouldKeepColor(b, tick) ==
  /\ b.lastCollisionTick /= 0
  /\ tick - b.lastCollisionTick < colorPersistenceFrames_collisionDetect

\* the particles built by the constructor of part_000
NewTickBalls(ids, args, colors, tick) ==
  [k \in 1..Len(args) |->
     TickBall(ids[k], args[k].x, args[k].y, args[k].velX, args[k].velY,
              colors[k], args[k].size, tick)]

\* ---------------------------------------------------------- noise generator
\* no generator is followed
NoGen == [noiseType |-> "none"]

\* the options of the noise type select
NoiseTypes == {"white", "pink", "brown", "blue", "violet", "lfsr", "velvet"}

\* const bufferSize = 4096; const resetInterval = 48000
bufferSize == 4096
resetInterval == 48000

\* Math.random() * 2 - 1 with Math.random() = k / RandDen, in units of
\* 1 / RandDen
White(k) == 2 * k - RandDen

\* units of lastOut (0.02 * white is White(k) units) and of b0 .. b6
BrownDen == 50 * RandDen
PinkDen == 10000

\* white * c for a coefficient c given in units of 1/10^7, in units of
\* 1 / PinkDen
PinkIn(c, k) == (c * White(k)) \div (1000 * RandDen)

\* a 32-bit integer of the bitwise operators is the set of the positions of
\* its bits that are 1; let lfsr = 0x9D2C5680
LfsrSeed == {31, 28, 27, 26, 24, 21, 19, 18, 14, 12, 10, 9, 7}

\* r >> n, the sign-propagating shift
ShiftRight(r, n) == {i \in 0..31 : (IF i + n > 31 THEN 31 ELSE i + n) \in r}

\* (r >> n) & 1
BitAt(r, n) == IF n \in ShiftRight(r, 0) THEN 1 ELSE 0

\* ((lfsr >> 0) ^ (lfsr >> 10) ^ (lfsr >> 30) ^ (lfsr >> 31)) & 1
Tap(r) == (BitAt(r, 0) + BitAt(r, 10) + BitAt(r, 30) + BitAt(r, 31)) % 2

\* the variables of the closure of onaudioprocess after
\* initializeNoiseGenerator; i is the index of the next sample of the buffer
\* (bufferSize when no buffer is being filled), output the last sample
\* written, as a fraction
NewGen(noiseType) ==
  [noiseType |-> noiseType, lastOut |-> 0, lastValue |-> 0, lastValue2 |-> 0,
   b0 |-> 0, b1 |-> 0, b2 |-> 0, b3 |-> 0, b4 |-> 0, b5 |-> 0, b6 |-> 0,
   lfsr |-> LfsrSeed, sampleCounter |-> 0, i |-> bufferSize,
   output |-> [num |-> 0, den |-> 1], written |-> FALSE]

\* onaudioprocess up to the switch: the sample counter and the soft reset
\* of the pink filters
BeginBuffer(g) ==
  LET counted == g.sampleCounter + bufferSize
      reset == counted >= resetInterval
      soft == reset /\ g.noiseType = "pink"
      Scale(b) == IF soft THEN (b * 9) \div 10 ELSE b
  IN [g EXCEPT !.sampleCounter = IF reset THEN 0 ELSE counted,
               !.b0 = Scale(@), !.b1 = Scale(@), !.b2 = Scale(@),
               !.b3 = Scale(@), !.b4 = Scale(@), !.b5 = Scale(@),
               !.b6 = Scale(@), !.i = 0]

\* case 'white' and default
WhiteSample(g, k) ==
  [g EXCEPT !.output = [num |-> White(k), den |-> RandDen]]

\* case 'pink'
PinkSample(g, k) ==
  LET b0 == g.b0 - (g.b0 * 235) \div 100000 + PinkIn(555179, k)
      b1 == g.b1 - (g.b1 * 668) \div 100000 + PinkIn(750759, k)
      b2 == g.b2 - (g.b2 * 31) \div 1000 + PinkIn(1538520, k)
      b3 == (g.b3 * 8665) \div 10000 + PinkIn(3104856, k)
      b4 == (g.b4 * 55) \div 100 + PinkIn(5329522, k)
      b5 == (0 - ((g.b5 * 7616) \div 10000)) - PinkIn(168980, k)
      pinkSample == b0 + b1 + b2 + b3 + b4 + b5 + g.b6 + PinkIn(5362000, k)
  IN [g EXCEPT !.b0 = b0, !.b1 = b1, !.b2 = b2, !.b3 = b3, !.b4 = b4,
               !.b5 = b5, !.b6 = PinkIn(1159260, k),
               !.output = [num |-> pinkSample * 11, den |-> 100 * PinkDen]]

\* case 'brown'
BrownSample(g, k) ==
  LET sum == g.lastOut + White(k)
      lastOut == IF sum > 8 * BrownDen \/ sum < 0 - 8 * BrownDen
                 THEN (sum * 998) \div 1000
                 ELSE sum
  IN [g EXCEPT !.lastOut = lastOut,
               !.output = [num |-> lastOut * 7, den |-> 16 * BrownDen]]

\* case 'blue'
BlueSample(g, k) ==
  [g EXCEPT !.lastValue = White(k),
            !.output = [num |-> White(k) - g.lastValue, den |-> 2 * RandDen]]

\* case 'violet'
VioletSample(g, k) ==
  LET temp == White(k) - g.lastValue
  IN [g EXCEPT !.lastValue2 = temp, !.lastValue = White(k),
               !.output = [num |-> temp - g.lastValue2, den |-> 4 * RandDen]]

\* case 'lfsr'
LfsrSample(g) ==
  LET bit == BitAt(g.lfsr, 0)
  IN [g EXCEPT !.lfsr = ShiftRight(g.lfsr, 1)
                          \cup (IF Tap(g.lfsr) = 1 THEN {31} ELSE {}),
               !.output = [num |-> bit * 2 - 1, den |-> 1]]

\* case 'velvet': Math.random() < 0.1, then Math.random() > 0.5
VelvetSample(g, k, k2) ==
  [g EXCEPT !.output =
     IF 10 * k < RandDen
     THEN [num |-> IF 2 * k2 > RandDen THEN 7 ELSE 0 - 7, den |-> 10]
     ELSE [num |-> 0, den |-> 1]]

\* one turn of the for loop of the case of g.noiseType
WriteSample(g, k, k2) ==
  LET h == CASE g.noiseType = "pink" -> PinkSample(g, k)
             [] g.noiseType = "brown" -> BrownSample(g, k)
             [] g.noiseType = "blue" -> BlueSample(g, k)
             [] g.noiseType = "violet" -> VioletSample(g, k)
             [] g.noiseType = "lfsr" -> LfsrSample(g)
             [] g.noiseType = "velvet" -> VelvetSample(g, k, k2)
             [] OTHER -> WhiteSample(g, k)
  IN [h EXCEPT !.i = g.i + 1, !.written = TRUE]

\* --------------------------------------------------------------------- Init
\* state after the mount render and its effects: initialBalls particles,
\* audio disabled, every closure holding the first configuration
Init ==
  /\ \E args \in [1..DefaultConfig.initialBalls ->
                    SpawnChoices(DefaultConfig, WindowWidth, WindowHeight)] :
       balls = NewBalls([k \in 1..DefaultConfig.initialBalls |-> k], args)
  /\ collisionCounter = 0
  /\ processedIndices = {}
  /\ currentConfig = DefaultConfig
  /\ config = DefaultConfig
  /\ loopConfig = Capture(DefaultConfig, LoopFields)
  /\ audioConfig = Capture(DefaultConfig, AudioFields)
  /\ audio = NoAudio
  /\ pc = "idle"
  /\ idx = 0
  /\ trace = <<>>
  /\ resolutions = <<>>
  /\ width = WindowWidth
  /\ height = WindowHeight
  /\ animationId = requestAnimationFrame({})
  /\ pending = {animationId}
  /\ mounted = TRUE
  /\ simTickCount = 0
  /\ gen = NoGen

\* --------------------------------------------------------------- frame loop
\* loop: the callback starts, the background is painted
FrameBegin ==
  /\ pc = "idle"
  /\ collisionCounter < MaxCollisions
  /\ pc' = "topup"
  /\ trace' = <<>>
  /\ resolutions' = <<>>
  /\ UNCHANGED <<balls, collisionCounter, processedIndices, currentConfig,
                 config, loopConfig, audioConfig, audio, idx>>
  /\ \E h \in pending : pending' = pending \ {h}
  /\ UNCHANGED <<surface, animationId, mounted, variant>>

\* (variant: the top-up runs after the pass instead of before it)
TopUp_Late ==
  /\ pc = "loop"
  /\ idx > Len(balls)
  /\ Len(balls) < loopConfig.initialBalls
  /\ \E arg \in SpawnChoices(currentConfig, width, height) :
       LET nb == NewBalls(<<FreshId(UsedIds)>>, <<arg>>)
           bs == balls \o nb
       IN /\ balls' = bs
          /\ audio' = spawnBallsAudio(audio, bs, 1, audioConfig)
          /\ trace' = Append(trace, [op |-> "spawn", id |-> nb[1].id])
  /\ idx' = idx + 1
  /\ UNCHANGED <<collisionCounter, processedIndices, currentConfig, config,
                 loopConfig, audioConfig, pc, resolutions>>
  /\ UNCHANGED <<surface, scheduling, variant>>

\* while (sim.balls.length < config.initialBalls) sim.spawnBalls(1)
TopUp ==
  /\ pc = "topup"
  /\ Len(balls) < loopConfig.initialBalls
  /\ \E arg \in SpawnChoices(currentConfig, width, height) :
       LET nb == NewBalls(<<FreshId(UsedIds)>>, <<arg>>)
           bs == balls \o nb
       IN /\ balls' = bs
          /\ audio' = spawnBallsAudio(audio, bs, 1, audioConfig)
          /\ trace' = Append(trace, [op |-> "spawn", id |-> nb[1].id])
  /\ UNCHANGED <<collisionCounter, processedIndices, currentConfig, config,
                 loopConfig, audioConfig, pc, idx, resolutions>>
  /\ UNCHANGED <<surface, scheduling, variant>>

\* the population floor is reached: the draw/update pass begins
TopUpDone ==
  /\ pc = "topup"
  /\ ~(Len(balls) < loopConfig.initialBalls)
  /\ pc' = "pass"
  /\ UNCHANGED <<balls, collisionCounter, processedIndices, currentConfig,
                 config, loopConfig, audioConfig, audio, idx, trace,
                 resolutions>>
  /\ UNCHANGED <<surface, scheduling, variant>>

\* (variant: the pass runs whether or not the simulation is paused)
PassBegin_IgnorePause ==
  /\ pc = "pass"
  /\ processedIndices' = {}
  /\ idx' = 1
  /\ pc' = "loop"
  /\ UNCHANGED <<balls, collisionCounter, currentConfig, config, loopConfig,
                 audioConfig, audio, trace, resolutions>>
  /\ UNCHANGED <<surface, scheduling, variant>>

\* if (!config.pauseSimulation) { sim.processedIndices.clear(); i = 0 ...
PassBegin ==
  /\ pc = "pass"
  /\ IF ~loopConfig.pauseSimulation
     THEN /\ processedIndices' = {}
          /\ idx' = 1
          /\ pc' = "loop"
     ELSE /\ pc' = "paused"
          /\ UNCHANGED <<processedIndices, idx>>
  /\ UNCHANGED <<balls, collisionCounter, currentConfig, config, loopConfig,
                 audioConfig, audio, trace, resolutions>>
  /\ UNCHANGED <<surface, scheduling, variant>>

\* (variant: continue without i++)
Skip_Stay ==
  /\ pc = "loop"
  /\ idx <= Len(balls)
  /\ idx \in processedIndices
  /\ UNCHANGED <<balls, collisionCounter, processedIndices, currentConfig,
                 config, loopConfig, audioConfig, audio, pc, idx, trace,
                 resolutions>>
  /\ UNCHANGED <<surface, scheduling, variant>>

\* for (...; i < sim.balls.length; i++) {
\*   if (sim.processedIndices.has(i)) continue
Skip ==
  /\ pc = "loop"
  /\ idx <= Len(balls)
  /\ idx \in processedIndices
  /\ idx' = idx + 1
  /\ UNCHANGED <<balls, collisionCounter, processedIndices, currentConfig,
                 config, loopConfig, audioConfig, audio, pc, trace,
                 resolutions>>
  /\ UNCHANGED <<surface, scheduling, variant>>

\* sim.balls[i].draw()
Draw ==
  /\ pc = "loop"
  /\ idx <= Len(balls)
  /\ idx \notin processedIndices
  /\ trace' = Append(trace, [op |-> "draw", id |-> balls[idx].id])
  /\ pc' = "update"
  /\ UNCHANGED <<balls, collisionCounter, processedIndices, currentConfig,
                 config, loopConfig, audioConfig, audio, idx, resolutions>>
  /\ UNCHANGED <<surface, scheduling, variant>>

\* sim.balls[i].update()
Update ==
  /\ pc = "update"
  /\ balls' = [balls EXCEPT ![idx] =
                 update(@, currentConfig, width, height)]
  /\ trace' = Append(trace, [op |-> "update", id |-> balls[idx].id,
                              from |-> balls[idx]])
  /\ pc' = "collide"
  /\ UNCHANGED <<collisionCounter, processedIndices, currentConfig, config,
                 loopConfig, audioConfig, audio, idx, resolutions>>
  /\ UNCHANGED <<surface, scheduling, variant>>

\* (variant: the counter is raised by the number of particles spawned)
Collide_CountSpawns ==
  /\ pc = "collide"
  /\ LET j == FirstMatch(balls, processedIndices, idx)
         cfg == currentConfig
     IN IF j = 0
        THEN UNCHANGED <<balls, collisionCounter, processedIndices, audio,
                         resolutions>>
        ELSE /\ processedIndices' = processedIndices \cup {j}
             /\ \E n \in (IF Len(balls) < cfg.maxBalls
                          THEN RandomSet(1, cfg.maxSpawnPerCollision + 1)
                          ELSE {0}) :
                  \E args \in [1..n -> CollisionChoices(cfg, balls[j])] :
                    LET nb == NewBalls(FreshIds(UsedIds, n), args)
                    IN /\ balls' = RemoveAt(balls \o nb, j)
                       /\ collisionCounter' = collisionCounter + n
                       /\ resolutions' = Append(resolutions,
                            [scanner |-> balls[idx].id,
                             victim |-> balls[j].id,
                             i |-> idx, j |-> j, before |-> balls,
                             spawned |-> nb,
                             bound |-> HasFilter(audio, balls[j].id)])
             /\ audio' = cleanupBallFilter(audio, balls[j], DefaultConfig)
  /\ trace' = Append(trace, [op |-> "collide", id |-> balls[idx].id])
  /\ idx' = idx + 1
  /\ pc' = "loop"
  /\ UNCHANGED <<currentConfig, config, loopConfig, audioConfig>>
  /\ UNCHANGED <<surface, scheduling, variant>>

\* (variant: a collision also spawns when the population is at maxBalls)
Collide_CapInclusive ==
  /\ pc = "collide"
  /\ LET j == FirstMatch(balls, processedIndices, idx)
         cfg == currentConfig
     IN IF j = 0
        THEN UNCHANGED <<balls, collisionCounter, processedIndices, audio,
                         resolutions>>
        ELSE /\ processedIndices' = processedIndices \cup {j}
             /\ collisionCounter' = collisionCounter + 1
             /\ \E n \in (IF Len(balls) <= cfg.maxBalls
                          THEN RandomSet(1, cfg.maxSpawnPerCollision + 1)
                          ELSE {0}) :
                  \E args \in [1..n -> CollisionChoices(cfg, balls[j])] :
                    LET nb == NewBalls(FreshIds(UsedIds, n), args)
                    IN /\ balls' = RemoveAt(balls \o nb, j)
                       /\ resolutions' = Append(resolutions,
                            [scanner |-> balls[idx].id,
                             victim |-> balls[j].id,
                             i |-> idx, j |-> j, before |-> balls,
                             spawned |-> nb,
                             bound |-> HasFilter(audio, balls[j].id)])
             /\ audio' = cleanupBallFilter(audio, balls[j], DefaultConfig)
  /\ trace' = Append(trace, [op |-> "collide", id |-> balls[idx].id])
  /\ idx' = idx + 1
  /\ pc' = "loop"
  /\ UNCHANGED <<currentConfig, config, loopConfig, audioConfig>>
  /\ UNCHANGED <<surface, scheduling, variant>>

\* sim.balls[i].collisionDetect(sim.balls, sim.processedIndices)
Collide ==
  /\ pc = "collide"
  /\ LET j == FirstMatch(balls, processedIndices, idx)
         cfg == currentConfig
     IN IF j = 0
        THEN UNCHANGED <<balls, collisionCounter, processedIndices, audio,
                         resolutions>>
        ELSE /\ processedIndices' = processedIndices \cup {j}
             /\ collisionCounter' = collisionCounter + 1
             /\ \E n \in (IF Len(balls) < cfg.maxBalls
                          THEN RandomSet(1, cfg.maxSpawnPerCollision + 1)
                          ELSE {0}) :
                  \E args \in [1..n -> CollisionChoices(cfg, balls[j])] :
                    LET nb == NewBalls(FreshIds(UsedIds, n), args)
                    IN /\ balls' = RemoveAt(balls \o nb, j)
                       /\ resolutions' = Append(resolutions,
                            [scanner |-> balls[idx].id,
                             victim |-> balls[j].id,
                             i |-> idx, j |-> j, before |-> balls,
                             spawned |-> nb,
                             bound |-> HasFilter(audio, balls[j].id)])
             /\ audio' = cleanupBallFilter(audio, balls[j], DefaultConfig)
  /\ trace' = Append(trace, [op |-> "collide", id |-> balls[idx].id])
  /\ idx' = idx + 1
  /\ pc' = "loop"
  /\ UNCHANGED <<currentConfig, config, loopConfig, audioConfig>>
  /\ UNCHANGED <<surface, scheduling, variant>>

\* else { for (const ball of sim.balls) ball.draw() }
PausedDraw ==
  /\ pc = "paused"
  /\ trace' = trace \o [k \in 1..Len(balls) |->
                          [op |-> "draw", id |-> balls[k].id]]
  /\ pc' = "loop"
  /\ idx' = Len(balls) + 1
  /\ UNCHANGED <<balls, collisionCounter, processedIndices, currentConfig,
                 config, loopConfig, audioConfig, audio, resolutions>>
  /\ UNCHANGED <<surface, scheduling, variant>>

\* the pass is over; sim.animationId = requestAnimationFrame(loop)
Schedule ==
  /\ pc = "loop"
  /\ idx > Len(balls)
  /\ pc' = "idle"
  /\ idx' = 0
  /\ trace' = <<>>
  /\ resolutions' = <<>>
  /\ balls' = CanonBalls(balls)
  /\ audio' = CanonAudio(balls, audio)
  /\ UNCHANGED <<collisionCounter, processedIndices, currentConfig,
                 config, loopConfig, audioConfig>>
  /\ LET h == requestAnimationFrame(pending)
     IN animationId' = h /\ pending' = pending \cup {h}
  /\ UNCHANGED <<surface, mounted, variant>>

\* ------------------------------------------------------- configuration
\* dependency lists of the effects
\* (variant: initialBalls missing from the dependency list)
LoopDepsChanged_NoFloor(old, new) ==
  \/ old.pauseSimulation /= new.pauseSimulation
  \/ old.trailOpacity /= new.trailOpacity

LoopDepsChanged(old, new) ==
  \/ old.pauseSimulation /= new.pauseSimulation
  \/ old.trailOpacity /= new.trailOpacity
  \/ old.initialBalls /= new.initialBalls

AudioDepsChanged(old, new) == old.audioEnabled /= new.audioEnabled

FilterDepsChanged(old, new) ==
  \/ old.filterQ /= new.filterQ
  \/ old.minFrequency /= new.minFrequency
  \/ old.maxFrequency /= new.maxFrequency

\* useEffect(..., [config]): sim.currentConfig = {...config}, then
\* updateBallFilter for every particle
ConfigEffect(a, bs, new) == ForEachUpdate(a, bs, new)

\* the outcomes of creating the audio context inside the try block: both
\* calls succeed, the AudioContext constructor throws, or the constructor
\* succeeds and initializeNoiseGenerator throws before it stores the source
CreateOutcomes == {"ok", "noContext", "noNoise"}

\* the try block is entered and its catch clause runs
CreationFails(a, new, outcome) ==
  new.audioEnabled /\ a.context = "none" /\ outcome /= "ok"

\* useEffect(..., [config.audioEnabled]): create or suspend the audio context
AudioContextEffect(a, new, outcome) ==
  IF new.audioEnabled /\ a.context = "none"
  THEN IF outcome = "ok"
       THEN initializeNoiseGenerator([a EXCEPT !.context = "running"], new)
       ELSE IF outcome = "noNoise" THEN [a EXCEPT !.context = "running"]
       ELSE a
  ELSE IF ~new.audioEnabled /\ a.context /= "none"
       THEN IF a.context /= "closed"
            THEN [a EXCEPT !.context = "suspended"] ELSE a
       ELSE a

\* useEffect(..., [config.audioEnabled]): AudioBall, the spawnBalls override,
\* and the filters of the existing particles
AudioBallEffect(a, bs, new) ==
  IF new.audioEnabled THEN ForEachCreate(a, bs, new) ELSE a

\* useEffect(..., [config.bypassFilters])
BypassEffect(a, new) ==
  IF new.audioEnabled THEN updateFilterConnections(a, new) ELSE a

\* useEffect(..., [config.noiseType])
NoiseTypeEffect(a, new) ==
  IF a.context /= "none" /\ new.audioEnabled
  THEN initializeNoiseGenerator(a, new) ELSE a

\* useEffect(..., [config.filterQ, config.minFrequency, config.maxFrequency])
FilterParamsEffect(a, bs, new) ==
  IF ~new.audioEnabled THEN a ELSE ForEachUpdate(a, bs, new)

\* the effects of one render, in the order of their declaration
RunEffects(a, bs, old, new, outcome) ==
  LET a2 == ConfigEffect(a, bs, new)
      a4 == IF AudioDepsChanged(old, new)
            THEN AudioContextEffect(a2, new, outcome)
            ELSE a2
      a5 == IF AudioDepsChanged(old, new) THEN AudioBallEffect(a4, bs, new)
            ELSE a4
      a6 == IF old.bypassFilters /= new.bypassFilters
            THEN BypassEffect(a5, new) ELSE a5
      a7 == IF old.noiseType /= new.noiseType
            THEN NoiseTypeEffect(a6, new) ELSE a6
  IN IF FilterDepsChanged(old, new) THEN FilterParamsEffect(a7, bs, new)
     ELSE a7

\* the parameter changes the controls deliver: the audio and pause
\* checkboxes and the population cap
ConfigInputs ==
  ({"pauseSimulation", "audioEnabled", "bypassFilters"} \X BOOLEAN)
    \cup ({"maxBalls"} \X {2, 3})

\* the parameter changes of the engine: population floor, spawn fan-out
\* and pause, with audio left disabled
EngineInputs ==
  ({"initialBalls"} \X (1..MaxInitialBalls))
    \cup ({"maxSpawnPerCollision"} \X {2, 4})
    \cup ({"pauseSimulation"} \X BOOLEAN)

\* the DOM delivers the value of a range input as a decimal string, here
\* the sequence of its digits; Number(value) reads it back
RECURSIVE Digits(_)
Digits(n) == IF n < 10 THEN <<n>> ELSE Append(Digits(n \div 10), n % 10)

RECURSIVE Number(_)
Number(str) ==
  IF Len(str) = 1 THEN str[1]
  ELSE 10 * Number(SubSeq(str, 1, Len(str) - 1)) + str[Len(str)]

\* the controls that are checkboxes
Checkboxes == {"pauseSimulation", "audioEnabled", "bypassFilters"}

\* e.target of the change event of the control `name` set to v
Target(name, v) ==
  IF name \in Checkboxes
  THEN [name |-> name, type |-> "checkbox", value |-> "on", checked |-> v]
  ELSE IF name = "noiseType"
       THEN [name |-> name, type |-> "select-one", value |-> v,
             checked |-> FALSE]
       ELSE [name |-> name, type |-> "range", value |-> Digits(v),
             checked |-> FALSE]

\* newValue of handleConfigChange
NewValue(target) ==
  IF target.type = "checkbox" THEN target.checked
  ELSE IF target.name = "noiseType" THEN target.value
  ELSE Number(target.value)

\* setConfig(prev => next) followed by the render and its effects: the
\* [config] effect, the loop effect (its cleanup, then a new request) when
\* one of its dependencies changed, then the audio effects; when creating
\* the audio context fails the catch clause asks for audioEnabled: false
setConfig(new, outcome) ==
  /\ config' = new
  /\ currentConfig' = new
  /\ loopConfig' = IF LoopDepsChanged(config, new)
                   THEN Capture(new, LoopFields) ELSE loopConfig
  /\ IF LoopDepsChanged(config, new)
     THEN LET stopped == loopCleanup(animationId, pending)
              h == requestAnimationFrame(stopped.pending)
          IN animationId' = h /\ pending' = stopped.pending \cup {h}
     ELSE UNCHANGED <<animationId, pending>>
  /\ audioConfig' = IF AudioDepsChanged(config, new)
                    THEN Capture(new, AudioFields) ELSE audioConfig
  /\ audio' = RunEffects(audio, balls, config, new, outcome)
  /\ pc' = IF AudioDepsChanged(config, new)
              /\ CreationFails(audio, new, outcome)
           THEN "revert" ELSE "idle"
  /\ UNCHANGED <<balls, collisionCounter, processedIndices, idx, trace,
                 resolutions, surface, mounted, variant>>

\* (variant: the new configuration is built from the initial one)
handleConfigChange_Replace(target, outcome) ==
  /\ pc = "idle"
  /\ mounted
  /\ setConfig([DefaultConfig EXCEPT ![target.name] = NewValue(target)],
               outcome)

\* handleConfigChange
handleConfigChange(target, outcome) ==
  /\ pc = "idle"
  /\ mounted
  /\ setConfig([config EXCEPT ![target.name] = NewValue(target)], outcome)

\* (variant: the catch clause leaves the flag as it is)
RevertAudio_Keep ==
  /\ pc = "revert"
  /\ setConfig(config, "ok")

\* setConfig(prev => ({ ...prev, audioEnabled: false })) of the catch clause
RevertAudio ==
  /\ pc = "revert"
  /\ setConfig([config EXCEPT !.audioEnabled = FALSE], "ok")

\* handleMouseMove of the two handles of the size range
dragMinBallSize(v) ==
  /\ pc = "idle"
  /\ mounted
  /\ LET lo == IF config.maxBallSize - 1 < v THEN config.maxBallSize - 1
               ELSE v
         newValue == IF lo < 1 THEN 1 ELSE lo
     IN setConfig([config EXCEPT !.minBallSize = newValue], "ok")

dragMaxBallSize(v) ==
  /\ pc = "idle"
  /\ mounted
  /\ LET hi == IF v > 100 THEN 100 ELSE v
         newValue == IF hi < config.minBallSize + 1
                     THEN config.minBallSize + 1 ELSE hi
     IN setConfig([config EXCEPT !.maxBallSize = newValue], "ok")

\* handleResize: the closure variables follow the window; the particles are
\* redrawn
handleResize(w, h) ==
  /\ pc = "idle"
  /\ mounted
  /\ width' = w
  /\ height' = h
  /\ UNCHANGED <<balls, collisionCounter, processedIndices, currentConfig,
                 config, loopConfig, audioConfig, audio, pc, idx, trace,
                 resolutions, scheduling, variant>>

\* unmount: the cleanups of the effects in the order of their declaration:
\* the mount effect cancels the pending frame and closes the audio context,
\* the loop effect cancels again and clears the handle
Unmount ==
  /\ pc = "idle"
  /\ mounted
  /\ mounted' = FALSE
  /\ LET afterMount == IF animationId /= 0
                       THEN cancelAnimationFrame(pending, animationId)
                       ELSE pending
         stopped == loopCleanup(animationId, afterMount)
     IN animationId' = stopped.animationId /\ pending' = stopped.pending
  /\ audio' = closeAudioContext(audio)
  /\ UNCHANGED <<balls, collisionCounter, processedIndices, currentConfig,
                 config, loopConfig, audioConfig, pc, idx, trace,
                 resolutions, surface, variant>>

\* resetSimulation
resetSimulation ==
  /\ pc = "idle"
  /\ LET cleaned == ForEachCleanup(audio, balls, config)
         count == config.initialBalls
     IN \E args \in [1..count ->
                       SpawnChoices(currentConfig, width, height)] :
          LET nb == NewBalls(FreshIds(UsedIds, count), args)
          IN /\ balls' = nb
             /\ audio' = spawnBallsAudio(cleaned, nb, count, audioConfig)
  /\ collisionCounter' = 0
  /\ processedIndices' = {}
  /\ pc' = "render"
  /\ UNCHANGED <<currentConfig, config, loopConfig, audioConfig, idx,
                 trace, resolutions>>
  /\ mounted
  /\ UNCHANGED <<surface, scheduling, variant>>

\* setStats(...) at the end of resetSimulation: the component renders again
\* (no dependency of an effect has changed)
Render ==
  /\ pc = "render"
  /\ pc' = "idle"
  /\ balls' = CanonBalls(balls)
  /\ audio' = CanonAudio(balls, audio)
  /\ UNCHANGED <<collisionCounter, processedIndices, currentConfig, config,
                 loopConfig, audioConfig, idx, trace, resolutions>>
  /\ UNCHANGED <<surface, scheduling, variant>>

Frame ==
  \/ FrameBegin \/ TopUp \/ TopUpDone \/ PassBegin \/ Skip
  \/ Draw \/ Update \/ Collide \/ PausedDraw \/ Schedule

Next ==
  \/ Frame
  \/ \E in \in ConfigInputs : handleConfigChange(Target(in[1], in[2]), "ok")
  \/ resetSimulation
  \/ Render

Spec == Init /\ [][Next]_vars

NextEngine ==
  \/ Frame
  \/ \E in \in EngineInputs : handleConfigChange(Target(in[1], in[2]), "ok")
  \/ resetSimulation
  \/ Render

SpecEngine == Init /\ [][NextEngine]_vars

\* the callback of a frame is one synchronous run of loop: once it has
\* started, its next step is taken
FrameBody ==
  \/ TopUp \/ TopUpDone \/ PassBegin \/ Skip
  \/ Draw \/ Update \/ Collide \/ PausedDraw \/ Schedule

FairEngine == SpecEngine /\ WF_vars(FrameBody)

\* ------------------------------------------- src/unnamed/part_000
\* state after the mount render and its effects: the mount effect sets
\* sim.simTickCount to 1, then spawns initialBalls particles
InitTick ==
  /\ \E args \in [1..DefaultConfig.initialBalls ->
                    SpawnChoices(DefaultConfig, WindowWidth, WindowHeight)],
        ks \in [1..DefaultConfig.initialBalls -> 0..(RandDen - 1)] :
       balls = NewTickBalls([k \in 1..DefaultConfig.initialBalls |-> k], args,
                            [k \in 1..DefaultConfig.initialBalls |->
                               generateRandomColor(ks[k])], 1)
  /\ simTickCount = 1
  /\ collisionCounter = 0
  /\ processedIndices = {}
  /\ currentConfig = DefaultConfig
  /\ config = DefaultConfig
  /\ loopConfig = Capture(DefaultConfig, LoopFields)
  /\ audioConfig = Capture(DefaultConfig, AudioFields)
  /\ audio = NoAudio
  /\ pc = "idle"
  /\ idx = 0
  /\ trace = <<>>
  /\ resolutions = <<>>
  /\ width = WindowWidth
  /\ height = WindowHeight
  /\ animationId = requestAnimationFrame({})
  /\ pending = {animationId}
  /\ mounted = TRUE
  /\ gen = NoGen

\* (variant: a paused frame does not count)
FrameBeginTick_SkipPaused ==
  /\ pc = "idle"
  /\ collisionCounter < MaxCollisions
  /\ simTickCount < MaxTicks
  /\ simTickCount' = IF loopConfig.pauseSimulation THEN simTickCount
                     ELSE simTickCount + 1
  /\ pc' = "topup"
  /\ trace' = <<>>
  /\ resolutions' = <<>>
  /\ \E h \in pending : pending' = pending \ {h}
  /\ UNCHANGED <<balls, collisionCounter, processedIndices, currentConfig,
                 config, loopConfig, audioConfig, audio, idx, surface,
                 animationId, mounted, gen>>

\* loop of part_000: sim.simTickCount = (sim.simTickCount || 0) + 1, then
\* the background is painted
FrameBeginTick ==
  /\ pc = "idle"
  /\ collisionCounter < MaxCollisions
  /\ simTickCount < MaxTicks
  /\ simTickCount' = simTickCount + 1
  /\ pc' = "topup"
  /\ trace' = <<>>
  /\ resolutions' = <<>>
  /\ \E h \in pending : pending' = pending \ {h}
  /\ UNCHANGED <<balls, collisionCounter, processedIndices, currentConfig,
                 config, loopConfig, audioConfig, audio, idx, surface,
                 animationId, mounted, gen>>

\* while (sim.balls.length < config.initialBalls) sim.spawnBalls(1), with
\* spawnBalls of part_000
TopUpTick ==
  /\ pc = "topup"
  /\ Len(balls) < loopConfig.initialBalls
  /\ \E arg \in SpawnChoices(currentConfig, width, height),
        k \in 0..(RandDen - 1) :
       LET nb == NewTickBalls(<<FreshId(UsedIds)>>, <<arg>>,
                              <<generateRandomColor(k)>>, simTickCount)
       IN /\ balls' = balls \o nb
          /\ trace' = Append(trace, [op |-> "spawn", id |-> nb[1].id])
  /\ UNCHANGED <<collisionCounter, processedIndices, currentConfig, config,
                 loopConfig, audioConfig, audio, pc, idx, resolutions,
                 surface, scheduling, variant>>

\* sim.balls[i].update() of part_000
UpdateTick ==
  /\ pc = "update"
  /\ balls' = [balls EXCEPT ![idx] =
                 tickUpdate(@, currentConfig, simTickCount)]
  /\ trace' = Append(trace, [op |-> "update", id |-> balls[idx].id,
                              from |-> balls[idx]])
  /\ pc' = "collide"
  /\ UNCHANGED <<collisionCounter, processedIndices, currentConfig, config,
                 loopConfig, audioConfig, audio, idx, resolutions>>
  /\ UNCHANGED <<surface, scheduling, variant>>

\* sim.balls[i].collisionDetect(sim.balls, sim.processedIndices) of
\* part_000: the collision color is the color of the scanning particle when
\* it is kept, a new random one otherwise; it is given to the scanning
\* particle, to the particle that was hit and to every spawned particle
CollideTick ==
  /\ pc = "collide"
  /\ LET j == FirstMatch(balls, processedIndices, idx)
         cfg == currentConfig
         this == balls[idx]
         keep == shouldKeepColor(this, simTickCount)
     IN IF j = 0
        THEN UNCHANGED <<balls, collisionCounter, processedIndices,
                         resolutions>>
        ELSE /\ processedIndices' = processedIndices \cup {j}
             /\ collisionCounter' = collisionCounter + 1
             /\ \E k \in (IF keep THEN {0} ELSE 0..(RandDen - 1)) :
                  LET collisionColorData ==
                        IF keep
                        THEN [color |-> this.color, hue |-> this.baseHue]
                        ELSE generateRandomColor(k)
                      painted ==
                        [balls EXCEPT
                           ![idx] = [@ EXCEPT
                              !.lastCollisionTick =
                                 IF keep THEN @ ELSE simTickCount,
                              !.color = collisionColorData.color,
                              !.baseHue = collisionColorData.hue],
                           ![j] = [@ EXCEPT
                              !.color = collisionColorData.color,
                              !.baseHue = collisionColorData.hue]]
                  IN \E n \in (IF Len(balls) < cfg.maxBalls
                               THEN RandomSet(1, cfg.maxSpawnPerCollision + 1)
                               ELSE {0}) :
                       \E args \in [1..n -> CollisionChoices(cfg, balls[j])] :
                         LET nb == NewTickBalls(FreshIds(UsedIds, n), args,
                                     [m \in 1..n |-> collisionColorData],
                                     simTickCount)
                         IN /\ balls' = RemoveAt(painted \o nb, j)
                            /\ resolutions' = Append(resolutions,
                                 [scanner |-> balls[idx].id,
                                  victim |-> balls[j].id,
                                  i |-> idx, j |-> j, before |-> balls,
                                  spawned |-> nb, kept |-> keep])
  /\ trace' = Append(trace, [op |-> "collide", id |-> balls[idx].id])
  /\ idx' = idx + 1
  /\ pc' = "loop"
  /\ UNCHANGED <<currentConfig, config, loopConfig, audioConfig, audio>>
  /\ UNCHANGED <<surface, scheduling, variant>>

\* resetSimulation of part_000
resetSimulationTick ==
  /\ pc = "idle"
  /\ mounted
  /\ LET count == config.initialBalls
     IN \E args \in [1..count -> SpawnChoices(currentConfig, width, height)],
           ks \in [1..count -> 0..(RandDen - 1)] :
          balls' = NewTickBalls(FreshIds(UsedIds, count), args,
                                [k \in 1..count |-> generateRandomColor(ks[k])],
                                simTickCount)
  /\ collisionCounter' = 0
  /\ processedIndices' = {}
  /\ pc' = "render"
  /\ UNCHANGED <<currentConfig, config, loopConfig, audioConfig, audio, idx,
                 trace, resolutions, surface, scheduling, variant>>

\* the dimensions the window is resized to
WindowSizes ==
  (WindowWidth..(WindowWidth + 1)) \X (WindowHeight..(WindowHeight + 1))

\* the steps of a frame of part_000
FrameTick ==
  \/ FrameBeginTick \/ TopUpTick \/ TopUpDone \/ PassBegin \/ Skip
  \/ Draw \/ UpdateTick \/ CollideTick \/ PausedDraw \/ Schedule

\* the frame loop of part_000 with the window resized, the population floor
\* raised and the simulation paused
TickInputs == ({"pauseSimulation"} \X {TRUE}) \cup ({"initialBalls"} \X {3})

NextTick ==
  \/ FrameTick
  \/ \E in \in TickInputs : handleConfigChange(Target(in[1], in[2]), "ok")
  \/ \E sz \in WindowSizes : handleResize(sz[1], sz[2])

SpecTick == InitTick /\ [][NextTick]_vars

\* the frame loop of part_000 with pause, the population cap and reset
ClockInputs ==
  ({"pauseSimulation"} \X BOOLEAN) \cup ({"maxBalls"} \X {2, 3})

NextClock ==
  \/ FrameTick
  \/ \E in \in ClockInputs : handleConfigChange(Target(in[1], in[2]), "ok")
  \/ resetSimulationTick
  \/ Render

SpecClock == InitTick /\ [][NextClock]_vars

\* the handles of the size range dragged and the velocity scale changed,
\* with pause, the population cap and reset
SizeInputs ==
  ({"pauseSimulation"} \X BOOLEAN) \cup ({"maxBalls"} \X {2, 3})
    \cup ({"velocity"} \X {VelocityDen \div 2, VelocityDen})

NextSizes ==
  \/ Frame
  \/ \E v \in 0..3 : dragMinBallSize(v)
  \/ \E v \in 0..3 : dragMaxBallSize(v)
  \/ \E in \in SizeInputs : handleConfigChange(Target(in[1], in[2]), "ok")
  \/ resetSimulation
  \/ Render

SpecSizes == Init /\ [][NextSizes]_vars

\* the audio checkbox with every outcome of creating the audio context,
\* the three dependencies of the loop effect (pause, trail opacity in
\* hundredths, population floor), the population cap, and unmount
LifecycleInputs ==
  ({"audioEnabled", "pauseSimulation"} \X BOOLEAN)
    \cup ({"maxBalls"} \X {2, 3})
    \cup ({"trailOpacity"} \X {10, 30})
    \cup ({"initialBalls"} \X {2, 3})

NextLifecycle ==
  \/ Frame
  \/ \E in \in LifecycleInputs, outcome \in CreateOutcomes :
       handleConfigChange(Target(in[1], in[2]), outcome)
  \/ RevertAudio
  \/ Unmount

SpecLifecycle == Init /\ [][NextLifecycle]_vars

\* the handlers of the audio controls alone, with no frame in between: the
\* audio checkbox, the filter Q (in tenths), the noise type, the handles of
\* the size range, and reset
FilterInputs ==
  ({"audioEnabled"} \X BOOLEAN)
    \cup ({"filterQ"} \X {5, 10})
    \cup ({"noiseType"} \X {"pink", "white"})

NextFilters ==
  \/ \E in \in FilterInputs : handleConfigChange(Target(in[1], in[2]), "ok")
  \/ \E v \in 1..3 : dragMinBallSize(v)
  \/ \E v \in 1..3 : dragMaxBallSize(v)
  \/ resetSimulation
  \/ Render

SpecFilters == Init /\ [][NextFilters]_vars

\* ------------------------------------------------- the audio functions alone
\* The audio functions applied one at a time to one particle, from every
\* audio state and configuration of a bounded set: a context that is
\* running, suspended or closed, with or without a noise source and a filter
\* for the particle, the graph cut, bypassed or routed through the filter
OpsConfigs ==
  {[DefaultConfig EXCEPT !.minBallSize = lo, !.maxBallSize = hi,
                         !.audioEnabled = en, !.bypassFilters = by] :
     lo \in 1..2, hi \in 1..2, en \in BOOLEAN, by \in BOOLEAN}

OpsAudio ==
  {[context |-> ctx, noiseSource |-> noise,
    ballFilters |-> IF bound THEN (1 :> [Q |-> DefaultConfig.filterQ,
                                         frequency |-> [kind |-> "finite",
                                                        num |-> 100,
                                                        den |-> 1]])
                    ELSE <<>>,
    noiseToGain |-> noise /= "none" /\ graph /= "cut",
    gainToDest |-> noise /= "none" /\ graph = "bypass",
    gainToFilter |-> IF noise /= "none" /\ graph = "filters" /\ bound
                     THEN {1} ELSE {},
    filterToDest |-> IF noise /= "none" /\ graph = "filters" /\ bound
                     THEN {1} ELSE {},
    raised |-> FALSE] :
     ctx \in {"running", "suspended", "closed"},
     noise \in {"none", "pink"}, bound \in BOOLEAN,
     graph \in {"cut", "bypass", "filters"}}

InitOps ==
  /\ \E size \in 1..2 : balls = <<Ball(1, 0, 0, 1, 1, size)>>
  /\ config \in {c \in OpsConfigs : c.minBallSize <= c.maxBallSize}
  /\ audio \in OpsAudio
  /\ currentConfig = config
  /\ loopConfig = Capture(config, LoopFields)
  /\ audioConfig = Capture(config, AudioFields)
  /\ collisionCounter = 0
  /\ processedIndices = {}
  /\ pc = "ops"
  /\ idx = 0
  /\ trace = <<>>
  /\ resolutions = <<>>
  /\ width = WindowWidth
  /\ height = WindowHeight
  /\ animationId = 0
  /\ pending = {}
  /\ mounted = TRUE
  /\ simTickCount = 0
  /\ gen = NoGen

\* one call of an audio function; trace holds the name of the last call
Op(name, result) ==
  /\ pc = "ops"
  /\ audio' = result
  /\ trace' = <<[op |-> name, id |-> 0]>>
  /\ UNCHANGED <<balls, collisionCounter, processedIndices, currentConfig,
                 config, loopConfig, audioConfig, pc, idx, resolutions,
                 surface, scheduling, variant>>

OpCreateFilter == Op("createFilter", createBallFilter(audio, balls[1], config))

OpUpdateFilter == Op("updateFilter", updateBallFilter(audio, balls[1], config))

OpCleanupFilter ==
  Op("cleanupFilter", cleanupBallFilter(audio, balls[1], config))

OpRebuild == Op("rebuild", updateFilterConnections(audio, config))

OpInitNoise == Op("initNoise", initializeNoiseGenerator(audio, config))

\* the effect on config.audioEnabled when audio is disabled
OpSuspend ==
  Op("suspend",
     AudioContextEffect(audio, [config EXCEPT !.audioEnabled = FALSE], "ok"))

\* the audio part of the cleanup of the mount effect
OpClose == Op("close", closeAudioContext(audio))

NextOps ==
  \/ OpCreateFilter \/ OpUpdateFilter \/ OpCleanupFilter \/ OpRebuild
  \/ OpInitNoise \/ OpSuspend \/ OpClose

SpecAudioOps == InitOps /\ [][NextOps]_vars

TypeOK ==
  /\ pc \in {"idle", "topup", "pass", "loop", "update", "collide", "paused",
             "render", "revert", "ops", "hue", "noise"}
  /\ collisionCounter \in Nat
  /\ simTickCount \in Nat
  /\ \A k \in DOMAIN balls : balls[k].id \in Nat

\* ------------------------------------------------------------------ claims
\* the particles that took part in the k-th collision resolution of the frame
Participants(k) == {resolutions[k].scanner, resolutions[k].victim}

\* C1: in a frame no particle takes part in two collision resolutions,
\* whether as the scanning particle or as the removed particle
C1_OneResolutionPerParticle ==
  \A p, q \in DOMAIN resolutions :
    p < q => Participants(p) \cap Participants(q) = {}

\* the last collision resolution of the frame, and whether the last thing
\* that happened in the frame is that resolution
LastResolution == resolutions[Len(resolutions)]

JustResolved ==
  /\ resolutions /= <<>>
  /\ trace /= <<>>
  /\ trace[Len(trace)].op = "collide"
  /\ trace[Len(trace)].id = LastResolution.scanner

\* C2: immediately after a collision-triggered spawn (the spawn followed by
\* the removal of the victim) the number of live particles is at most
\* maxBalls
C2_SpawnWithinCap ==
  (JustResolved /\ LastResolution.spawned /= <<>>)
    => Len(balls) <= currentConfig.maxBalls

\* C3: when the draw/update pass of a frame begins, paused or not, the
\* number of live particles is at least the current initialBalls
C3_FloorBeforePass == pc = "pass" => Len(balls) >= config.initialBalls

\* a pass begins after the floor was raised and the frame had to top up
C3_Witness ==
  /\ pc = "pass"
  /\ trace /= <<>>
  /\ Len(balls) = config.initialBalls
  /\ collisionCounter > 0

\* the candidates that overlap the scanning particle: center distance
\* strictly less than the sum of the two sizes
Hit(j) ==
  /\ j /= idx
  /\ j \notin processedIndices
  /\ (balls[idx].x - balls[j].x) * (balls[idx].x - balls[j].x)
       + (balls[idx].y - balls[j].y) * (balls[idx].y - balls[j].y)
     < (balls[idx].size + balls[j].size) * (balls[idx].size + balls[j].size)
         * VelocityDen * VelocityDen

Near(b, victim) ==
  /\ b.x - victim.x \in (-SpawnJitter * VelocityDen)..(SpawnJitter * VelocityDen)
  /\ b.y - victim.y \in (-SpawnJitter * VelocityDen)..(SpawnJitter * VelocityDen)

\* C4: when the scanning particle finds a particle at a center distance
\* strictly less than the sum of the sizes, the resolution keeps the scanning
\* particle, removes the other one, raises the collision counter by one, and
\* appends 1..maxSpawnPerCollision particles within 10 units (on each axis)
\* of the removed particle if the population was below maxBalls, none
\* otherwise; without such a particle nothing is resolved
C4_Resolution ==
  [][pc = "collide" =>
       IF \E j \in DOMAIN balls : Hit(j)
       THEN \E j \in DOMAIN balls :
              LET added == Ids(balls') \ Ids(balls)
              IN /\ Hit(j)
                 /\ collisionCounter' = collisionCounter + 1
                 /\ balls[idx].id \in Ids(balls')
                 /\ Ids(balls) \ Ids(balls') = {balls[j].id}
                 /\ Len(balls') = Len(balls) - 1 + Cardinality(added)
                 /\ \A k \in DOMAIN balls' :
                      balls'[k].id \in added => Near(balls'[k], balls[j])
                 /\ IF Len(balls) < currentConfig.maxBalls
                    THEN Cardinality(added)
                           \in 1..currentConfig.maxSpawnPerCollision
                    ELSE added = {}
       ELSE collisionCounter' = collisionCounter /\ balls' = balls]_vars

\* a resolution with three spawned particles has just happened, and one
\* with none (population at the cap)
C4_Witness ==
  /\ JustResolved
  /\ Len(resolutions) >= 2
  /\ \E k \in DOMAIN resolutions : Len(resolutions[k].spawned) = 3
  /\ \E k \in DOMAIN resolutions : resolutions[k].spawned = <<>>

\* C5: every particle that has a filter in the filter map is a live member
\* of the collection, and only filters of the map are connected to the
\* output: a removal disconnects the filter and deletes its entry
C5_FiltersOfLiveParticles ==
  /\ DOMAIN audio.ballFilters \subseteq Ids(balls)
  /\ audio.filterToDest \subseteq DOMAIN audio.ballFilters

\* a collision has just removed a particle that had a filter
C5_Witness == JustResolved /\ LastResolution.bound

\* C6: reset leaves exactly initialBalls particles, all newly created, a
\* collision counter of 0 and an empty processed-set, and no filter binding
\* that existed before is in the map or connected to the output
C6_Reset ==
  [][(pc = "idle" /\ pc' = "render") =>
       /\ Len(balls') = config.initialBalls
       /\ Ids(balls') \cap Ids(balls) = {}
       /\ collisionCounter' = 0
       /\ processedIndices' = {}
       /\ DOMAIN audio'.ballFilters \cap DOMAIN audio.ballFilters = {}
       /\ audio'.filterToDest \cap DOMAIN audio.ballFilters = {}]_vars

\* a reset has just run with audio enabled: the new particles have filters
C6_Witness ==
  /\ pc = "render"
  /\ config.audioEnabled
  /\ DOMAIN audio.ballFilters = Ids(balls)
  /\ Len(balls) = config.initialBalls

\* a step of the frame loop, from the start of the callback to the request
\* of the next frame
FrameStep == pc \notin {"idle", "render"} \/ (pc = "idle" /\ pc' = "topup")

\* position, velocity and size of a particle (its name is left out: the
\* names are reassigned between frames)
Motion(b) == [b EXCEPT !.id = 0]

\* C7: while pauseSimulation is set, every step of every frame leaves each
\* existing particle at its index with its position, velocity and size,
\* removes no particle, and
\* leaves the collision counter, the processed-set and the configuration
\* unchanged; the first frame after the flag is cleared therefore starts
\* from the state the pause began with, apart from particles the top-up
\* appended
C7_PausedFrames ==
  [][(config.pauseSimulation /\ FrameStep) =>
       /\ Len(balls') >= Len(balls)
       /\ \A k \in DOMAIN balls : Motion(balls'[k]) = Motion(balls[k])
       /\ collisionCounter' = collisionCounter
       /\ processedIndices' = processedIndices
       /\ currentConfig' = currentConfig
       /\ config' = config]_vars

\* a paused frame has drawn the particles left by earlier collisions
C7_Witness ==
  /\ config.pauseSimulation
  /\ pc = "loop"
  /\ idx > Len(balls)
  /\ collisionCounter > 0
  /\ \E p \in DOMAIN trace : trace[p].op = "draw"

\* C8: in an unpaused frame every top-up spawn precedes every draw, update
\* and collide; each particle's steps are draw, update, collide, adjacent in
\* this order, and the next draw only follows a top-up spawn or a collide
C8_FrameOrder ==
  ~config.pauseSimulation =>
    /\ \A p \in DOMAIN trace :
         LET e == trace[p]
         IN /\ e.op = "spawn" => \A q \in 1..(p - 1) : trace[q].op = "spawn"
            /\ e.op = "draw" =>
                 (p = 1 \/ trace[p - 1].op \in {"spawn", "collide"})
            /\ e.op = "update" =>
                 (p > 1 /\ trace[p - 1] = [op |-> "draw", id |-> e.id])
            /\ e.op = "collide" =>
                 (p > 1 /\ trace[p - 1].op = "update"
                        /\ trace[p - 1].id = e.id)
    /\ pc \in {"topup", "pass"} =>
         \A p \in DOMAIN trace : trace[p].op = "spawn"
    /\ pc = "update" =>
         trace /= <<>> /\ trace[Len(trace)].op = "draw"
    /\ pc = "collide" =>
         trace /= <<>> /\ trace[Len(trace)].op = "update"
    /\ (pc = "loop" /\ trace /= <<>>) =>
         trace[Len(trace)].op \in {"spawn", "collide"}

\* an unpaused frame that topped up, then processed two particles, one of
\* which resolved a collision
C8_Witness ==
  /\ ~config.pauseSimulation
  /\ pc = "loop"
  /\ trace /= <<>>
  /\ trace[1].op = "spawn"
  /\ Cardinality({p \in DOMAIN trace : trace[p].op = "collide"}) >= 2
  /\ resolutions /= <<>>

\* C9: whenever audio is enabled (the effects of a configuration change run
\* in the step of the change), the routing graph matches bypassFilters: with
\* bypass the gain stage is connected to the output and no filter is; without
\* it the gain stage is connected to exactly the filters of the map, each of
\* which is connected to the output
C9_RoutingMatchesBypass ==
  (config.audioEnabled /\ audio.context /= "none") =>
    IF config.bypassFilters
    THEN audio.gainToDest /\ audio.filterToDest = {}
    ELSE /\ ~audio.gainToDest
         /\ audio.gainToFilter = DOMAIN audio.ballFilters
         /\ audio.filterToDest = DOMAIN audio.ballFilters

\* C10: while audio is enabled and the audio context exists, at the end of
\* every frame and after a reset the particles that have a filter are
\* exactly the live particles
C10_BoundIsLive ==
  (/\ config.audioEnabled
   /\ audio.context /= "none"
   /\ \/ pc = "loop" /\ idx > Len(balls)
      \/ pc = "render")
    => DOMAIN audio.ballFilters = Ids(balls)

\* the coordinate a particle of radius sz (both in position units) that has
\* moved to m takes on a surface of the given extent
Wrapped(m, sz, extent) ==
  IF m - sz > extent THEN -sz
  ELSE IF m + sz < 0 THEN extent + sz
  ELSE m

\* C11: advance adds the effective velocity (origin velocity times the
\* current scale), then a particle wholly past the right or bottom edge is
\* placed at -size, one wholly past the left or top edge at extent + size,
\* and any other keeps the position it moved to; the velocity is never
\* reversed
C11_WrapNotReflect ==
  [][pc = "update" =>
       LET b == balls[idx]
           c == balls'[idx]
           sz == b.size * VelocityDen
       IN /\ c.x = Wrapped(b.x + b.origVelX * currentConfig.velocity, sz,
                           width * VelocityDen)
          /\ c.y = Wrapped(b.y + b.origVelY * currentConfig.velocity, sz,
                           height * VelocityDen)
          /\ c.velX = b.origVelX * currentConfig.velocity
          /\ c.velY = b.origVelY * currentConfig.velocity
          /\ c.origVelX = b.origVelX /\ c.origVelY = b.origVelY
          /\ c.size = b.size]_vars

\* the last event of the frame is an advance, of the particle at idx
JustAdvanced ==
  /\ pc = "collide"
  /\ trace /= <<>>
  /\ trace[Len(trace)].op = "update"

\* an advance has just moved a particle wholly past the left edge, where it
\* was wrapped to the right, while it straddles the top edge and stays
C11_Witness ==
  /\ JustAdvanced
  /\ LET b == trace[Len(trace)].from
         c == balls[idx]
         sz == b.size * VelocityDen
     IN /\ b.x + c.velX + sz < 0
        /\ c.x = width * VelocityDen + sz
        /\ c.y = b.y + c.velY
        /\ c.y - sz < 0
        /\ c.y + sz >= 0

\* C12: after a resize every advance wraps against the current dimensions
\* of the drawing surface, and every top-up spawn lies within them
C12_ResizeTakesEffect ==
  [][/\ pc = "update" =>
          LET b == balls[idx]
              c == balls'[idx]
              sz == b.size * VelocityDen
          IN /\ c.x = Wrapped(b.x + b.origVelX * currentConfig.velocity, sz,
                              width * VelocityDen)
             /\ c.y = Wrapped(b.y + b.origVelY * currentConfig.velocity, sz,
                              height * VelocityDen)
     /\ (pc = "topup" /\ Len(balls') > Len(balls)) =>
          LET c == balls'[Len(balls')]
          IN /\ c.x \in 0..(width * VelocityDen)
             /\ c.y \in 0..(height * VelocityDen)]_vars

\* the particles of the next state that the step created
Created(k) == balls'[k].id \notin Ids(balls)

\* a step of spawnBalls (top-up or reset) or of collisionDetect
CreationStep ==
  pc \in {"topup", "collide"} \/ (pc = "idle" /\ pc' = "render")

\* C13: every particle has at creation (initial spawn, top-up, reset,
\* collision) a size within minBallSize .. maxBallSize of the configuration
\* in force, whenever minBallSize <= maxBallSize
C13_SizeAtCreation ==
  /\ \A k \in DOMAIN balls :
       balls[k].size \in DefaultConfig.minBallSize..DefaultConfig.maxBallSize
  /\ [][(CreationStep
          /\ currentConfig.minBallSize <= currentConfig.maxBallSize) =>
          \A k \in DOMAIN balls' :
            Created(k) =>
              balls'[k].size
                \in currentConfig.minBallSize..currentConfig.maxBallSize]_vars

\* a collision has just spawned a particle of size 2 while a particle of
\* size 1, created under an earlier size range, is alive
C13_Witness ==
  /\ JustResolved
  /\ currentConfig.minBallSize = 2
  /\ \E k \in DOMAIN LastResolution.spawned :
       LastResolution.spawned[k].size = 2
  /\ \E k \in DOMAIN balls : balls[k].size = 1

\* the origin velocity of a particle
Origin(b) == <<b.origVelX, b.origVelY>>

\* C14: whatever the velocity scale was before, the origin velocity of a
\* particle never changes once it is created, and an advance sets the
\* effective velocity to origin velocity times the current scale and moves
\* the particle by exactly that much (before wrapping)
C14_VelocityFromOrigin ==
  [][/\ \A k \in DOMAIN balls, m \in DOMAIN balls' :
          (IF pc' = "idle" /\ pc /= "idle" THEN k = m
           ELSE balls[k].id = balls'[m].id)
            => Origin(balls'[m]) = Origin(balls[k])
     /\ pc = "update" =>
          LET b == balls[idx]
              c == balls'[idx]
              sz == b.size * VelocityDen
          IN /\ c.velX = b.origVelX * currentConfig.velocity
             /\ c.velY = b.origVelY * currentConfig.velocity
             /\ c.x = Wrapped(b.x + c.velX, sz, width * VelocityDen)
             /\ c.y = Wrapped(b.y + c.velY, sz, height * VelocityDen)]_vars

\* a particle that moved at the full scale has just advanced at half of it
C14_Witness ==
  /\ JustAdvanced
  /\ currentConfig.velocity = VelocityDen \div 2
  /\ LET b == trace[Len(trace)].from
         c == balls[idx]
     IN /\ b.velX = b.origVelX * VelocityDen
        /\ b.x /= 0
        /\ c.velX = b.origVelX * (VelocityDen \div 2)
        /\ c.x = b.x + c.velX

\* C15: when creating the audio context or its noise generator fails, the
\* next step sets audioEnabled back to false; neither step touches the
\* particles, the collision counter, the processed-set or the pending frame
\* request, so the frame loop goes on
C15_AudioFailureRecovered ==
  [][/\ (pc = "revert" \/ pc' = "revert") =>
          /\ balls' = balls
          /\ collisionCounter' = collisionCounter
          /\ processedIndices' = processedIndices
          /\ animationId' = animationId
          /\ pending' = pending
          /\ pending' /= {}
          /\ mounted'
     /\ pc' = "revert" =>
          /\ config'.audioEnabled
          /\ audio'.context = "none" \/ audio'.noiseSource = "none"
     /\ pc = "revert" =>
          /\ pc' = "idle"
          /\ ~config'.audioEnabled
          /\ audio'.context \in {"none", "suspended"}]_vars

\* after a failure and its recovery a frame has resolved a collision
C15_Witness ==
  /\ JustResolved
  /\ ~config.audioEnabled
  /\ audio.context = "suspended"
  /\ audio.noiseSource = "none"

\* the audio function whose call is the step
Called(names) == pc = "ops" /\ trace' /= <<>> /\ trace'[1].op \in names

C18_ClosedContextNoOp ==
  [][(/\ Called({"close", "suspend", "initNoise", "rebuild"})
      /\ audio.context = "closed") => audio' = audio]_vars

\* the filter connections were rebuilt on a closed context that holds a
\* filter routed to the output, with audio enabled and bypass on
C18_Witness ==
  /\ pc = "ops"
  /\ trace /= <<>>
  /\ trace[1].op = "rebuild"
  /\ audio.context = "closed"
  /\ audio.filterToDest /= {}
  /\ config.audioEnabled
  /\ config.bypassFilters

\* the scheduling state after the cleanup of the loop effect has run once,
\* and after it has run a second time
StoppedOnce == loopCleanup(animationId, pending)
StoppedTwice == loopCleanup(StoppedOnce.animationId, StoppedOnce.pending)

\* C17: between frames, running the cleanup of the loop effect leaves no
\* frame callback pending and the handle null, and running it again changes
\* nothing; after unmount no callback is pending and the handle is null
C17_StopIdempotent ==
  /\ (mounted /\ pc = "idle") =>
       /\ StoppedOnce = [animationId |-> 0, pending |-> {}]
       /\ StoppedTwice = StoppedOnce
  /\ ~mounted =>
       /\ animationId = 0
       /\ pending = {}
       /\ StoppedOnce = [animationId |-> 0, pending |-> {}]

\* the component was unmounted after the loop effect was replaced (pause
\* checked) and collisions were resolved
C17_Witness ==
  /\ ~mounted
  /\ config.pauseSimulation
  /\ collisionCounter > 0

\* C19: a configuration update replaces one parameter and retains every
\* other one; for a control handled by handleConfigChange the parameter
\* holds the value the control delivered
C19_MergeOneParameter ==
  [][config' /= config =>
       /\ DOMAIN config' = DOMAIN config
       /\ \E p \in DOMAIN config :
            /\ config' = [config EXCEPT ![p] = config'[p]]
            /\ p \in {in[1] : in \in SizeInputs} =>
                 <<p, config'[p]>> \in SizeInputs
       /\ currentConfig' = config']_vars

\* updates to four different parameters are all in the configuration
C19_Witness ==
  /\ pc = "idle"
  /\ config.pauseSimulation
  /\ config.maxBalls = 2
  /\ config.velocity = VelocityDen \div 2
  /\ config.maxBallSize = 3
  /\ collisionCounter > 0

\* C20: in every collision resolution the particle that remains (the
\* scanning one) has the lower index at that moment and the particle that
\* is removed the higher index
C20_LowerIndexSurvives ==
  \A k \in DOMAIN resolutions : resolutions[k].i < resolutions[k].j

\* ------------------------------------------ Ball.update of part_000 alone
\* one particle of base hue H built at tick T, then frames of the loop: a
\* paused frame counts a tick and leaves the particle alone, a running frame
\* counts a tick and calls update; trace holds the name of the last frame
HueInputs == {0, 180, 359}
HueTicks == {1, 3}

InitHue ==
  /\ \E H \in HueInputs, T \in HueTicks, vel \in {0, 1} :
       /\ balls = <<TickBall(1, 0, 0, vel, vel,
                             [color |-> hsl(H * HueDen), hue |-> H], 1, T)>>
       /\ simTickCount = T
  /\ collisionCounter = 0
  /\ processedIndices = {}
  /\ currentConfig = DefaultConfig
  /\ config = DefaultConfig
  /\ loopConfig = Capture(DefaultConfig, LoopFields)
  /\ audioConfig = Capture(DefaultConfig, AudioFields)
  /\ audio = NoAudio
  /\ pc = "hue"
  /\ idx = 0
  /\ trace = <<>>
  /\ resolutions = <<>>
  /\ width = WindowWidth
  /\ height = WindowHeight
  /\ animationId = 0
  /\ pending = {}
  /\ mounted = TRUE
  /\ gen = NoGen

\* loop with pauseSimulation set: sim.simTickCount += 1 and nothing else
HuePausedFrame ==
  /\ pc = "hue"
  /\ simTickCount - balls[1].lastCollisionTick
       < colorPersistenceFrames_update + MaxDrift
  /\ simTickCount' = simTickCount + 1
  /\ trace' = <<[op |-> "paused", id |-> 0]>>
  /\ UNCHANGED <<balls, collisionCounter, processedIndices, currentConfig,
                 config, loopConfig, audioConfig, audio, pc, idx, resolutions,
                 surface, scheduling, gen>>

\* loop with one particle: sim.simTickCount += 1, then update of the particle
HueRunningFrame ==
  /\ pc = "hue"
  /\ simTickCount - balls[1].lastCollisionTick
       < colorPersistenceFrames_update + MaxDrift
  /\ simTickCount' = simTickCount + 1
  /\ balls' = [balls EXCEPT ![1] = tickUpdate(@, currentConfig, simTickCount')]
  /\ trace' = <<[op |-> "update", id |-> 1]>>
  /\ UNCHANGED <<collisionCounter, processedIndices, currentConfig,
                 config, loopConfig, audioConfig, audio, pc, idx, resolutions,
                 surface, scheduling, gen>>

NextHue == HuePausedFrame \/ HueRunningFrame

SpecHue == InitHue /\ [][NextHue]_vars

\* -------------------------------------------- noiseNode.onaudioprocess alone
\* a generator built by initializeNoiseGenerator for one of the noise types,
\* then the calls of onaudioprocess, one sample of the buffer at a time
InitNoise ==
  /\ \E noiseType \in NoiseTypes : gen = NewGen(noiseType)
  /\ \E size \in 1..2 : balls = <<Ball(1, 0, 0, 1, 1, size)>>
  /\ collisionCounter = 0
  /\ processedIndices = {}
  /\ currentConfig = DefaultConfig
  /\ config = DefaultConfig
  /\ loopConfig = Capture(DefaultConfig, LoopFields)
  /\ audioConfig = Capture(DefaultConfig, AudioFields)
  /\ audio = NoAudio
  /\ pc = "noise"
  /\ idx = 0
  /\ trace = <<>>
  /\ resolutions = <<>>
  /\ width = WindowWidth
  /\ height = WindowHeight
  /\ animationId = 0
  /\ pending = {}
  /\ mounted = TRUE
  /\ simTickCount = 0

\* the audio thread calls onaudioprocess for the next buffer
onaudioprocess ==
  /\ pc = "noise"
  /\ gen.i >= bufferSize
  /\ gen' = BeginBuffer(gen)
  /\ UNCHANGED <<balls, collisionCounter, processedIndices, currentConfig,
                 config, loopConfig, audioConfig, audio, pc, idx, trace,
                 resolutions, surface, scheduling, simTickCount>>

\* output[i] = ... of the running call
NextSample ==
  /\ pc = "noise"
  /\ gen.i < bufferSize
  /\ gen.i < (IF gen.noiseType = "pink" THEN MaxPinkSamples ELSE MaxSamples)
  /\ \E k \in 0..(RandDen - 1), k2 \in 0..(RandDen - 1) :
       gen' = WriteSample(gen, k, k2)
  /\ UNCHANGED <<balls, collisionCounter, processedIndices, currentConfig,
                 config, loopConfig, audioConfig, audio, pc, idx, trace,
                 resolutions, surface, scheduling, simTickCount>>

NextNoise == onaudioprocess \/ NextSample

SpecNoise == InitNoise /\ [][NextNoise]_vars


\* the live particles other than the scanning one that the scan of
\* collisionDetect passes over
Excluded ==
  {j \in DOMAIN balls : j /= idx /\ ~Candidate(balls, processedIndices, idx, j)}

\* C21: during the scan of a frame no live particle other than the scanning
\* one is excluded as a collision candidate (the victims of earlier
\* collisions have left the collection): no index of the processed-set
\* refers to a live particle
C21_OnlyVictimsExcluded == pc = "collide" => Excluded = {}

\* a reset: the step of resetSimulation
ResetStep == pc = "idle" /\ pc' = "render"

\* the number of particles the step removes from the collection
RemovedByStep ==
  IF pc = "collide" THEN Cardinality(Ids(balls) \ Ids(balls'))
  ELSE IF Len(balls') < Len(balls) THEN Len(balls) - Len(balls') ELSE 0

\* C27: a reset sets the collision counter to 0; every other step (of a
\* frame, of a configuration change) raises it by the number of particles
\* the step removes, which is 1 for a collision resolution and 0 otherwise,
\* so the counter never decreases between two resets and equals the number
\* of particles collisions removed since the last one
C27_CounterCountsRemovals ==
  /\ collisionCounter \in Nat
  /\ [][IF ResetStep THEN collisionCounter' = 0
        ELSE /\ collisionCounter' = collisionCounter + RemovedByStep
             /\ RemovedByStep \in {0, 1}
             /\ RemovedByStep = 1 =>
                  (pc = "collide" /\ Len(resolutions') = Len(resolutions) + 1)
             /\ (pc = "collide" /\ resolutions' /= resolutions) =>
                  RemovedByStep = 1]_vars

\* the second resolution since the last reset has just happened, in a later
\* frame than the first, at the population cap (nothing spawned)
C27_Witness ==
  /\ JustResolved
  /\ collisionCounter = 2
  /\ Len(resolutions) = 1
  /\ LastResolution.spawned = <<>>

\* C30: at most one frame callback is pending at any moment: while the
\* component is mounted and no callback is running exactly one is pending,
\* the one whose handle sim.animationId holds; while a callback runs, and
\* after unmount, none is, whatever changes of pauseSimulation, trailOpacity
\* and initialBalls restarted the loop
C30_OneLoop ==
  /\ Cardinality(pending) <= 1
  /\ IF mounted /\ pc \in {"idle", "revert"}
     THEN pending = {animationId}
     ELSE pending = {}

\* the loop was restarted by a change of each of its three dependencies and
\* frames have run in between
C30_Witness ==
  /\ pc = "idle"
  /\ mounted
  /\ config.pauseSimulation
  /\ config.trailOpacity = 10
  /\ config.initialBalls = 3
  /\ collisionCounter > 0
  /\ pending = {animationId}

\* the center frequency num / den lies within lo .. hi
Within(frequency, lo, hi) ==
  /\ frequency.kind = "finite"
  /\ frequency.den > 0
  /\ lo * frequency.den <= frequency.num
  /\ frequency.num <= hi * frequency.den

\* C24: every filter of the filter map has a center frequency within
\* minFrequency .. maxFrequency of the current configuration, also after
\* minBallSize or maxBallSize was changed while particles exist
C24_FrequencyInRange ==
  \A id \in DOMAIN audio.ballFilters :
    Within(audio.ballFilters[id].frequency, config.minFrequency,
           config.maxFrequency)

\* C25: every filter of the filter map has the configured filterQ, also a
\* filter created for a particle spawned after the last change of filterQ
\* (the effects of a configuration change run in the step of the change)
C25_GlobalQ ==
  \A id \in DOMAIN audio.ballFilters :
    audio.ballFilters[id].Q = config.filterQ

\* C26: whenever audio is enabled and the audio context exists, the noise
\* source is connected to the gain stage and runs the algorithm named by the
\* current noiseType, for every order of changing noiseType and toggling
\* audioEnabled
C26_GeneratorMatchesType ==
  (config.audioEnabled /\ audio.context /= "none") =>
    /\ audio.noiseSource = config.noiseType
    /\ audio.noiseToGain

\* the step is a collision resolution
ResolutionStep == pc = "collide" /\ Len(resolutions') = Len(resolutions) + 1

\* the scanning particle as the resolution leaves it
Survivor == balls'[CHOOSE k \in DOMAIN balls' : balls'[k].id = balls[idx].id]

\* C22: in a collision resolution of part_000, a scanning particle whose
\* lastCollisionTick is fewer than 10 ticks before the current tick keeps its
\* color, base hue and lastCollisionTick; otherwise it takes a color made of
\* a new hue in 0 .. 359 and its lastCollisionTick becomes the current tick;
\* in both cases every particle the resolution spawned has the color and
\* base hue the scanning particle ends with
C22_CollisionColor ==
  [][ResolutionStep =>
       LET this == balls[idx]
       IN /\ IF simTickCount - this.lastCollisionTick < 10
             THEN /\ Survivor.color = this.color
                  /\ Survivor.baseHue = this.baseHue
                  /\ Survivor.lastCollisionTick = this.lastCollisionTick
             ELSE /\ Survivor.baseHue \in 0..359
                  /\ Survivor.color = hsl(Survivor.baseHue * HueDen)
                  /\ Survivor.lastCollisionTick = simTickCount
          /\ \A k \in DOMAIN balls' :
               Created(k) =>
                 /\ balls'[k].color = Survivor.color
                 /\ balls'[k].baseHue = Survivor.baseHue]_vars

\* a resolution whose scanning particle had not collided for 10 ticks or
\* more has just given a new hue, different from the old one, to the
\* scanning particle and to the particles it spawned
C22_Witness ==
  /\ JustResolved
  /\ ~LastResolution.kept
  /\ LastResolution.spawned /= <<>>
  /\ LastResolution.before[LastResolution.i].baseHue
       /= LastResolution.spawned[1].baseHue
  /\ simTickCount - LastResolution.before[LastResolution.i].lastCollisionTick
       >= 10

\* C28: sim.simTickCount rises by exactly 1 when a frame callback starts,
\* paused or not, and no other step changes it (no reset, no configuration
\* change, no restart of the loop); a particle created during a frame, by
\* the top-up or by a collision, has lastCollisionTick equal to the tick of
\* that frame
C28_TickPerFrame ==
  /\ simTickCount >= 1
  /\ [][/\ IF pc = "idle" /\ pc' = "topup"
           THEN simTickCount' = simTickCount + 1
           ELSE simTickCount' = simTickCount
        /\ pc \in {"topup", "collide"} =>
             \A k \in DOMAIN balls' :
               Created(k) => balls'[k].lastCollisionTick = simTickCount]_vars

\* a paused frame, started after the cap was lowered and the loop was
\* restarted by the pause, has topped up with a particle stamped with the
\* tick of the frame
C28_Witness ==
  /\ pc = "pass"
  /\ config.pauseSimulation
  /\ config.maxBalls = 2
  /\ simTickCount > 3
  /\ trace /= <<>>
  /\ trace[1].op = "spawn"
  /\ balls[Len(balls)].lastCollisionTick = simTickCount
  /\ \E k \in DOMAIN balls : balls[k].lastCollisionTick < simTickCount

\* the particle has just been advanced by update
Advanced == pc = "hue" /\ trace /= <<>> /\ trace[1].op = "update"

\* C23: a particle with lastCollisionTick = T and baseHue = H that has just
\* been advanced at tick T + 20 + k, k >= 0, shows the hue
\* (H + k * 36/1000) mod 360, whatever frames, paused or running, came before;
\* an advance at a tick less than 20 after T leaves the color as it was
C23_HueDrift ==
  /\ [](Advanced =>
         LET b == balls[1]
             k == simTickCount - b.lastCollisionTick
                    - colorPersistenceFrames_update
         IN k >= 0 =>
              b.color = hsl((b.baseHue * HueDen + k * HueStep)
                              % (360 * HueDen)))
  /\ [][(pc = "hue"
          /\ simTickCount' - balls[1].lastCollisionTick
               < colorPersistenceFrames_update)
        => balls'[1].color = balls[1].color]_vars

\* a particle of base hue 359 has been advanced after paused frames, far
\* enough past the 20 ticks for its hue to have wrapped around 360
C23_Witness ==
  /\ Advanced
  /\ balls[1].baseHue = 359
  /\ simTickCount - balls[1].lastCollisionTick
       >= colorPersistenceFrames_update + 28
  /\ balls[1].color.hue < 359 * HueDen

\* C29: every sample written by a noise generator, of whatever type and in
\* whatever state the generator is, lies in [-1, 1]
C29_SamplesInRange ==
  (pc = "noise" /\ gen.written) =>
    /\ 0 - gen.output.den <= gen.output.num
    /\ gen.output.num <= gen.output.den

\* C36: the lfsr generator never holds a register value that the step of the
\* register maps to itself (from such a value on every sample is the same),
\* and every sample it writes is -1 or +1
C36_LfsrNoFixedPoint ==
  (pc = "noise" /\ gen.noiseType = "lfsr") =>
    /\ LfsrSample(gen).lfsr /= gen.lfsr
    /\ gen.written => (gen.output.den = 1 /\ gen.output.num \in {0 - 1, 1})

\* the particles spawned by the collisions of the running frame
SpawnedInFrame ==
  UNION {Ids(resolutions[r].spawned) : r \in DOMAIN resolutions}

\* how often the running frame has applied op to the particle id
Times(op, id) ==
  Cardinality({p \in DOMAIN trace : trace[p].op = op /\ trace[p].id = id})

\* the update pass of an unpaused frame is over
PassOver == pc = "loop" /\ idx > Len(balls) /\ ~loopConfig.pauseSimulation

\* C31: at the end of the update pass of an unpaused frame every particle
\* that was live when the pass began and is still live has been drawn
\* exactly once and advanced exactly once in the frame
C31_SurvivorsOnce ==
  PassOver =>
    \A k \in DOMAIN balls :
      balls[k].id \notin SpawnedInFrame =>
        /\ Times("draw", balls[k].id) = 1
        /\ Times("update", balls[k].id) = 1

\* C35: no particle spawned by a collision of the running frame is drawn,
\* advanced or scanned for collisions in that frame, and the frame resolves
\* at most as many collisions as there were particles when its pass began
C35_SpawnsWaitAFrame ==
  (pc \in {"loop", "update", "collide"} /\ ~loopConfig.pauseSimulation) =>
    /\ \A p \in DOMAIN trace :
         trace[p].op \in {"draw", "update", "collide"} =>
           trace[p].id \notin SpawnedInFrame
    /\ \A r \in DOMAIN resolutions :
         /\ resolutions[r].victim \notin SpawnedInFrame
         /\ Len(resolutions) <= Len(resolutions[1].before)

\* the bound of the population under the configuration cfg
PopulationBound(cfg) ==
  IF cfg.initialBalls > cfg.maxBalls + cfg.maxSpawnPerCollision - 2
  THEN cfg.initialBalls
  ELSE cfg.maxBalls + cfg.maxSpawnPerCollision - 2

\* C32: the population is within max(initialBalls, maxBalls +
\* maxSpawnPerCollision - 2) at mount and after every reset, and no step
\* that leaves the configuration alone takes it from within the bound to
\* beyond it: under a configuration that does not change the population
\* stays within the bound from mount or reset on
C32_PopulationBounded ==
  /\ Len(balls) <= PopulationBound(config)
  /\ [][/\ ResetStep => Len(balls') <= PopulationBound(config')
        /\ (config' = config /\ Len(balls) <= PopulationBound(config))
             => Len(balls') <= PopulationBound(config)]_vars

\* under the configuration of mount a collision has spawned particles and
\* the population is at the bound
C32_Witness ==
  /\ JustResolved
  /\ LastResolution.spawned /= <<>>
  /\ config = DefaultConfig
  /\ Len(balls) = PopulationBound(config)

\* C33: every frame that has started reaches its end and schedules the next
\* frame, whatever the top-up and the collisions of its pass add to the
\* collection
C33_FrameTerminates == (pc = "topup") ~> (pc = "idle")

\* the pass of a frame is over in which a particle spawned by a collision
\* has itself resolved a collision
C33_Witness ==
  /\ PassOver
  /\ \E r \in DOMAIN resolutions : resolutions[r].scanner \in SpawnedInFrame

\* C34: whenever audio is enabled, an audio context exists and the effects
\* of the last configuration change have run, the context is running, also
\* when audio was disabled (the context suspended) and enabled again
C34_EnabledContextRuns ==
  (pc = "idle" /\ config.audioEnabled /\ audio.context /= "none") =>
    audio.context = "running"

====
